---------------------------- MODULE Spec2Model ----------------------------
(***************************************************************************)
(* Model of the live-meeting store                                         *)
(*   src/src/components/live-transcription/hooks/storage-for-live-meeting.tsx *)
(*                                                                         *)
(* meetingStore is one key-value store shared by every MeetingProvider     *)
(* (tab, window or mounted tree) and by the module-level functions         *)
(* archiveLiveMeeting, deleteArchivedMeeting, updateArchivedMeeting and    *)
(* getAllMeetings.  A provider keeps an in-memory copy (data) of one       *)
(* record; its asynchronous callbacks are modelled at their awaits:        *)
(*   loadData    = the scan (keys + getItem loop, one snapshot), then,     *)
(*                 when nothing matched, the setItem of the new record     *)
(*                 followed by setData;                                    *)
(*   updateStore = the call (newData is built from the data the calling    *)
(*                 closure holds), then the setItem followed by setData.   *)
(* The module-level functions are taken one call at a time (spec section 5:*)
(* they do not run against each other), each as one step.                 *)
(*                                                                         *)
(* Every store access can fail (the parameter ok), as localforage rejects. *)
(*                                                                         *)
(* Specifications:                                                         *)
(*   Spec      two providers and the module-level functions, from the      *)
(*             empty store;                                                *)
(*   SpecEdit  one provider, mounted once, and its setters, no store error;*)
(*   SpecRepo  the module-level functions alone, on every store of a       *)
(*             bounded family that earlier sessions can have left behind   *)
(*             (the store is persistent).                                  *)
(*   SpecTabs  two providers that have loaded the same record, and their   *)
(*             setters and updateStore calls;                              *)
(*   SpecLoad  two providers and the calls that start loadData, the awaits *)
(*             of a load in flight settling eventually (weak fairness);    *)
(*   SpecView  the segments list of the context value, computed from every *)
(*             record of a bounded family of chunks, edits and names.      *)
(***************************************************************************)
EXTENDS Integers, Sequences, FiniteSets, TLC

\* ------------------------------------------------------------------ bounds
\* new Date() has millisecond resolution: the clock reads 1..MaxClock.
MaxClock == 2
\* Calls (of any operation) made in one behaviour.
MaxCalls == 3
\* Calls of the module-level functions made on a store found as earlier
\* sessions left it (specification SpecRepo).
MaxRepoCalls == 2
\* updateStore calls of one provider whose write has not settled yet.
MaxPending == 2
\* Raw chunks of the record a projection is computed from.
MaxChunks == 2

Providers == {"A", "B"}
Times == 1..MaxClock

\* ------------------------------------------------------------------ values
\* null for the string-valued fields (title, analysis).
Null == "null"
\* an absent optional / a null object reference is the empty sequence,
\* a present one the one-element sequence.
None == <<>>
Some(x) == <<x>>
\* searchParams.get('meetingId') returns null without the parameter; null and
\* the empty string are both falsy in the tests of lines 132 and 138.
NoMeetingId == ""

\* `live-meeting-${startTime}`
MkId(startTime) == "live-meeting-" \o ToString(startTime)
Ids == {MkId(t) : t \in Times}
\* a meetingId in the URL that is the id of no record ever created
UnknownId == "live-meeting-unknown"
MeetingIds == {NoMeetingId, UnknownId} \cup Ids

Titles == {"t1"}
NotesValues == {<<"n1">>}
AnalysisValues == {"a1"}
QuestionsValues == {<<"q1">>}
ChunksValues == {<<"c1">>}

Fields == {"id", "chunks", "startTime", "endTime", "title", "notes",
           "analysis", "isArchived", "questions"}

VARIABLES
    store,      \* meetingStore: key -> LiveMeetingData
    now,        \* what new Date() reads
    meetingId,  \* per provider: the meetingId URL parameter
    data,       \* per provider: useState data (None = null)
    isLoading,  \* per provider: useState isLoading
    load,       \* per provider: the loadData call in flight
    pending,    \* per provider: updateStore calls whose setItem has not settled
    result,     \* the last settled operation: what it returned and wrote,
                \* the arguments of a call that wrote, and whether the call
                \* repeated the one settled before it
    fresh,      \* history: the loadData that just created a record
    intended,   \* history: per provider, the fields its setters were given
    retimed,    \* history: ids updateArchivedMeeting was given a startTime for
    calls       \* history: calls made so far

vars == <<store, now, meetingId, data, isLoading, load, pending, result,
          fresh, intended, retimed, calls>>

\* --------------------------------------------------------------- the store
\* meetingStore.keys() and iterate() of the IndexedDB driver walk the keys in
\* ascending key order; 'live-meeting-<ISO time>' sorts by creation time.
TimeOfKey(k) == CHOOSE t \in Times : MkId(t) = k
KeyBefore(a, b) == TimeOfKey(a) < TimeOfKey(b)
FirstKey(S) == CHOOSE k \in S : \A j \in S : j = k \/ KeyBefore(k, j)
LastKey(S) == CHOOSE k \in S : \A j \in S : j = k \/ KeyBefore(j, k)

\* meetingStore.setItem(key, value)
setItem(s, key, value) ==
    [k \in DOMAIN s \cup {key} |-> IF k = key THEN value ELSE s[k]]
\* meetingStore.removeItem(key)
removeItem(s, key) == [k \in DOMAIN s \ {key} |-> s[k]]

\* ---------------------------------------------------------------- loadData
\* lines 153-171: the record loadData creates
NewMeeting(startTime) ==
    [id |-> MkId(startTime), chunks |-> <<>>, startTime |-> startTime,
     endTime |-> None, title |-> Null, notes |-> <<>>, analysis |-> Null,
     isArchived |-> FALSE, questions |-> <<>>]

\* lines 127-143: the keys the loop would stop at
ScanMatches(s, mid) ==
    IF mid # NoMeetingId
    THEN {k \in DOMAIN s : s[k].id = mid}
    ELSE {k \in DOMAIN s : ~s[k].isArchived}

\* activeMeeting after the loop
ActiveMeeting(s, mid) ==
    IF ScanMatches(s, mid) = {} THEN None
    ELSE Some(s[FirstKey(ScanMatches(s, mid))])

Idle == [phase |-> "idle", mid |-> NoMeetingId, newData |-> None]
NoResult == [op |-> "none", by |-> "", args |-> <<>>, again |-> FALSE,
             status |-> "returned", ret |-> None, wrote |-> {}]
\* the call of op with args that is being made repeats the last settled call
Again(op, args) ==
    result.op = op /\ result.status = "returned" /\ result.args = args
NoIntent == [f \in {} |-> Null]
SetterFields == {"title", "notes", "analysis", "questions"}
IntentOf(rec) == [f \in SetterFields |-> rec[f]]

\* MeetingProvider as constructed (lines 106-117), nothing called yet
Unmounted ==
    /\ meetingId = [p \in Providers |-> NoMeetingId]
    /\ data = [p \in Providers |-> None]
    /\ isLoading = [p \in Providers |-> TRUE]
    /\ load = [p \in Providers |-> Idle]
    /\ pending = [p \in Providers |-> <<>>]
    /\ result = NoResult
    /\ fresh = None
    /\ intended = [p \in Providers |-> NoIntent]
    /\ retimed = {}
    /\ calls = 0

Init ==
    /\ store = [k \in {} |-> NewMeeting(1)]
    /\ now = 1
    /\ Unmounted

Called == calls < MaxCalls /\ calls' = calls + 1

\* new Date(): the clock has not gone back since it was last read, and may
\* not have moved on
NewDate(t) == t \in now..MaxClock /\ now' = t

\* A provider is mounted once its effect has run loadData.  Providers differ
\* in name only: the one mounted first is called "A".
Mounted(p) == ~isLoading[p] \/ load[p].phase # "idle"
MountsBefore(q, p) == q = "A" /\ p = "B"

\* lines 193-197: the effect runs loadData on mount and when meetingId changes
LoadEffect(p, mid) ==
    /\ Called
    /\ load[p].phase = "idle"
    /\ \A q \in Providers : MountsBefore(q, p) => Mounted(q)
    /\ meetingId' = [meetingId EXCEPT ![p] = mid]
    /\ load' = [load EXCEPT ![p] = [Idle EXCEPT !.phase = "scan", !.mid = mid]]
    /\ fresh' = IF fresh # None /\ fresh[1].by = p /\ fresh[1].mid = mid
                THEN fresh ELSE None
    /\ UNCHANGED <<store, now, data, isLoading, pending, result, intended,
                   retimed>>

\* lines 188-191
reloadData(p) ==
    /\ Called
    /\ Mounted(p)
    /\ load[p].phase = "idle"
    /\ isLoading' = [isLoading EXCEPT ![p] = TRUE]
    /\ load' = [load EXCEPT
                  ![p] = [Idle EXCEPT !.phase = "scan", !.mid = meetingId[p]]]
    /\ fresh' = IF fresh # None /\ fresh[1].by = p THEN fresh ELSE None
    /\ UNCHANGED <<store, now, meetingId, data, pending, result, intended,
                   retimed>>

\* (a deliberately wrong variant: setIsLoading(false) at the end of the try
\* block instead of in finally, so a store error leaves isLoading as it was)
LoadScan_NoFinally(p, ok) ==
    /\ load[p].phase = "scan"
    /\ LET found == ActiveMeeting(store, load[p].mid) IN
       IF ~ok
       THEN /\ load' = [load EXCEPT ![p] = Idle]
            /\ result' = [NoResult EXCEPT !.op = "loadData", !.by = p]
            /\ UNCHANGED <<now, data, intended, isLoading>>
       ELSE IF found # None
       THEN /\ UNCHANGED now
            /\ load' = [load EXCEPT ![p] = Idle]
            /\ data' = [data EXCEPT ![p] = found]
            /\ intended' = [intended EXCEPT ![p] = IntentOf(found[1])]
            /\ isLoading' = [isLoading EXCEPT ![p] = FALSE]
            /\ result' = [NoResult EXCEPT !.op = "loadData", !.by = p,
                                          !.ret = found]
       ELSE /\ \E startTime \in Times :
                 /\ NewDate(startTime)
                 /\ load' = [load EXCEPT
                               ![p] = [phase |-> "create", mid |-> load[p].mid,
                                       newData |-> Some(NewMeeting(startTime))]]
            /\ UNCHANGED <<data, intended, isLoading, result>>
    /\ fresh' = None
    /\ UNCHANGED <<store, meetingId, pending, retimed, calls>>
\* lines 121-152, 174-184: the scan; a match ends the call
LoadScan(p, ok) ==
    /\ load[p].phase = "scan"
    /\ LET found == ActiveMeeting(store, load[p].mid) IN
       IF ~ok
       THEN /\ load' = [load EXCEPT ![p] = Idle]
            /\ isLoading' = [isLoading EXCEPT ![p] = FALSE]
            /\ result' = [NoResult EXCEPT !.op = "loadData", !.by = p]
            /\ UNCHANGED <<now, data, intended>>
       ELSE IF found # None
       THEN /\ UNCHANGED now
            /\ load' = [load EXCEPT ![p] = Idle]
            /\ data' = [data EXCEPT ![p] = found]
            /\ intended' = [intended EXCEPT ![p] = IntentOf(found[1])]
            /\ isLoading' = [isLoading EXCEPT ![p] = FALSE]
            /\ result' = [NoResult EXCEPT !.op = "loadData", !.by = p,
                                          !.ret = found]
       ELSE /\ \E startTime \in Times :
                 /\ NewDate(startTime)
                 /\ load' = [load EXCEPT
                               ![p] = [phase |-> "create", mid |-> load[p].mid,
                                       newData |-> Some(NewMeeting(startTime))]]
            /\ UNCHANGED <<data, intended, isLoading, result>>
    /\ fresh' = None
    /\ UNCHANGED <<store, meetingId, pending, retimed, calls>>

\* (a deliberately wrong variant: setData(newData) does not wait for the
\* setItem to succeed)
LoadCreate_SetsDataAnyway(p, ok) ==
    /\ load[p].phase = "create"
    /\ LET newData == load[p].newData[1] IN
       /\ data' = [data EXCEPT ![p] = Some(newData)]
       /\ intended' = [intended EXCEPT ![p] = IntentOf(newData)]
       /\ IF ok
          THEN /\ store' = setItem(store, newData.id, newData)
               /\ result' = [NoResult EXCEPT !.op = "loadData", !.by = p,
                                             !.wrote = {newData.id}]
               /\ fresh' = Some([by |-> p, id |-> newData.id,
                                 mid |-> load[p].mid])
          ELSE /\ result' = [NoResult EXCEPT !.op = "loadData", !.by = p]
               /\ fresh' = None
               /\ UNCHANGED store
    /\ load' = [load EXCEPT ![p] = Idle]
    /\ isLoading' = [isLoading EXCEPT ![p] = FALSE]
    /\ UNCHANGED <<now, meetingId, pending, retimed, calls>>
\* lines 172-173, 178-184: the new record is written, then setData
LoadCreate(p, ok) ==
    /\ load[p].phase = "create"
    /\ LET newData == load[p].newData[1] IN
       IF ok
       THEN /\ store' = setItem(store, newData.id, newData)
            /\ data' = [data EXCEPT ![p] = Some(newData)]
            /\ intended' = [intended EXCEPT ![p] = IntentOf(newData)]
            /\ result' = [NoResult EXCEPT !.op = "loadData", !.by = p,
                                          !.wrote = {newData.id}]
            /\ fresh' = Some([by |-> p, id |-> newData.id, mid |-> load[p].mid])
       ELSE /\ result' = [NoResult EXCEPT !.op = "loadData", !.by = p]
            /\ fresh' = None
            /\ UNCHANGED <<store, data, intended>>
    /\ load' = [load EXCEPT ![p] = Idle]
    /\ isLoading' = [isLoading EXCEPT ![p] = FALSE]
    /\ UNCHANGED <<now, meetingId, pending, retimed, calls>>

\* ------------------------------------------------------------- updateStore
\* lines 199-201: updateStore(newData) up to its await; newData was built by
\* the caller from the data its closure holds
updateStore(p, op, newData) ==
    /\ Len(pending[p]) < MaxPending
    /\ pending' = [pending EXCEPT
                     ![p] = Append(@, [op |-> op, newData |-> newData])]

\* (a deliberately wrong variant: setData runs whether or not setItem
\* succeeded)
UpdateStoreSettle_Optimistic(p, ok) ==
    /\ pending[p] # <<>>
    /\ LET newData == Head(pending[p]).newData IN
       /\ data' = [data EXCEPT ![p] = Some(newData)]
       /\ IF ok
          THEN /\ store' = setItem(store, newData.id, newData)
               /\ result' = [NoResult EXCEPT !.op = "updateStore", !.by = p,
                                             !.status = "true",
                                             !.wrote = {newData.id}]
          ELSE /\ result' = [NoResult EXCEPT !.op = "updateStore", !.by = p,
                                             !.status = "false"]
               /\ UNCHANGED store
    /\ pending' = [pending EXCEPT ![p] = Tail(@)]
    /\ fresh' = None
    /\ UNCHANGED <<now, meetingId, isLoading, load, intended, retimed, calls>>
\* lines 201-208: the setItem settles, then setData (latestChunksRef is read
\* only by the chunk handler, which is not part of this file)
UpdateStoreSettle(p, ok) ==
    /\ pending[p] # <<>>
    /\ LET newData == Head(pending[p]).newData IN
       IF ok
       THEN /\ store' = setItem(store, newData.id, newData)
            /\ data' = [data EXCEPT ![p] = Some(newData)]
            /\ result' = [NoResult EXCEPT !.op = "updateStore", !.by = p,
                                          !.status = "true",
                                          !.wrote = {newData.id}]
       ELSE /\ result' = [NoResult EXCEPT !.op = "updateStore", !.by = p,
                                          !.status = "false"]
            /\ UNCHANGED <<store, data>>
    /\ pending' = [pending EXCEPT ![p] = Tail(@)]
    /\ fresh' = None
    /\ UNCHANGED <<now, meetingId, isLoading, load, intended, retimed, calls>>

\* (a deliberately wrong variant: without data the setter writes an empty
\* record)
SetterNoData_Writes(p, op) ==
    /\ Mounted(p)
    /\ data[p] = None
    /\ result' = [NoResult EXCEPT !.op = op, !.by = p]
    /\ updateStore(p, op, NewMeeting(now))
    /\ UNCHANGED intended
\* a setter called while data is null returns at once (lines 212, 226, 247, 253)
SetterNoData(p, op) ==
    /\ Mounted(p)
    /\ data[p] = None
    /\ result' = [NoResult EXCEPT !.op = op, !.by = p]
    /\ UNCHANGED <<pending, intended>>

\* lines 211-223
setTitle(p, title) ==
    /\ Called
    /\ \/ SetterNoData(p, "setTitle")
       \/ /\ data[p] # None
          /\ updateStore(p, "setTitle", [data[p][1] EXCEPT !.title = title])
          /\ intended' = [intended EXCEPT ![p]["title"] = title]
          /\ UNCHANGED result
    /\ fresh' = None
    /\ UNCHANGED <<store, now, meetingId, data, isLoading, load, retimed>>

\* (a deliberately wrong variant: the record to write is built from the
\* stored record, read again, and not from the copy in memory)
setNotes_Rereads(p, notes) ==
    /\ Called
    /\ \/ SetterNoData(p, "setNotes")
       \/ /\ data[p] # None
          /\ updateStore(p, "setNotes",
                         [store[data[p][1].id] EXCEPT !.notes = notes])
          /\ intended' = [intended EXCEPT ![p]["notes"] = notes]
          /\ UNCHANGED result
    /\ fresh' = None
    /\ UNCHANGED <<store, now, meetingId, data, isLoading, load, retimed>>
\* lines 225-244
setNotes(p, notes) ==
    /\ Called
    /\ \/ SetterNoData(p, "setNotes")
       \/ /\ data[p] # None
          /\ updateStore(p, "setNotes",
                         [data[p][1] EXCEPT !.notes = notes,
                                            !.title = data[p][1].title,
                                            !.startTime = data[p][1].startTime,
                                            !.id = data[p][1].id])
          /\ intended' = [intended EXCEPT ![p]["notes"] = notes]
          /\ UNCHANGED result
    /\ fresh' = None
    /\ UNCHANGED <<store, now, meetingId, data, isLoading, load, retimed>>

\* lines 246-250
setAnalysis(p, analysis) ==
    /\ Called
    /\ \/ SetterNoData(p, "setAnalysis")
       \/ /\ data[p] # None
          /\ updateStore(p, "setAnalysis",
                         [data[p][1] EXCEPT !.analysis = analysis])
          /\ intended' = [intended EXCEPT ![p]["analysis"] = analysis]
          /\ UNCHANGED result
    /\ fresh' = None
    /\ UNCHANGED <<store, now, meetingId, data, isLoading, load, retimed>>

\* lines 252-258
setQuestions(p, questions) ==
    /\ Called
    /\ \/ SetterNoData(p, "setQuestions")
       \/ /\ data[p] # None
          /\ updateStore(p, "setQuestions",
                         [data[p][1] EXCEPT !.questions = questions])
          /\ intended' = [intended EXCEPT ![p]["questions"] = questions]
          /\ UNCHANGED result
    /\ fresh' = None
    /\ UNCHANGED <<store, now, meetingId, data, isLoading, load, retimed>>

\* line 314: updateStore handed to the consumers of the context, who pass the
\* record they hold with new chunks (the chunk handler, line 265)
ContextUpdateStore(p, chunks) ==
    /\ Called
    /\ data[p] # None
    /\ updateStore(p, "updateStore", [data[p][1] EXCEPT !.chunks = chunks])
    /\ fresh' = None
    /\ UNCHANGED <<store, now, meetingId, data, isLoading, load, result,
                   intended, retimed>>

\* ------------------------------------------------- module-level functions
\* (a deliberately wrong variant: the isArchived test of line 365 left out)
Active_IgnoresArchived(s) == DOMAIN s
\* line 365: the records the scan of archiveLiveMeeting stops at
Active(s) == {k \in DOMAIN s : ~s[k].isArchived}

\* (a deliberately wrong variant: the archived record built without the stored title)
Archived_DropsTitle(meeting, endTime) ==
    [meeting EXCEPT !.isArchived = TRUE, !.endTime = Some(endTime),
                    !.title = Null]
\* (a deliberately wrong variant: the time of archiving written to startTime as well)
Archived_Restamps(meeting, endTime) ==
    [meeting EXCEPT !.isArchived = TRUE, !.endTime = Some(endTime),
                    !.startTime = endTime]
\* lines 370-374
Archived(meeting, endTime) ==
    [meeting EXCEPT !.isArchived = TRUE, !.endTime = Some(endTime)]

\* (a deliberately wrong variant: the catch block returns null and does not
\* throw)
archiveLiveMeeting_Swallows(ok) ==
    /\ Called
    /\ IF ~ok \/ Active(store) = {}
       THEN /\ result' = [NoResult EXCEPT
                            !.op = "archiveLiveMeeting",
                            !.again = ok /\ Again("archiveLiveMeeting", <<>>)]
            /\ UNCHANGED <<store, now>>
       ELSE \E endTime \in Times :
            LET key == FirstKey(Active(store))
                archivedMeeting == Archived(store[key], endTime)
            IN  /\ NewDate(endTime)
                /\ store' = setItem(store, key, archivedMeeting)
                /\ result' = [NoResult EXCEPT
                                !.op = "archiveLiveMeeting",
                                !.again = Again("archiveLiveMeeting", <<>>),
                                !.ret = Some(archivedMeeting),
                                !.wrote = {key}]
    /\ fresh' = None
    /\ UNCHANGED <<meetingId, data, isLoading, load, pending, intended,
                   retimed>>
\* lines 359-384
archiveLiveMeeting(ok) ==
    /\ Called
    /\ IF ~ok
       THEN /\ result' = [NoResult EXCEPT !.op = "archiveLiveMeeting",
                                          !.status = "threw"]
            /\ UNCHANGED <<store, now>>
       ELSE IF Active(store) = {}
       THEN /\ result' = [NoResult EXCEPT
                            !.op = "archiveLiveMeeting",
                            !.again = Again("archiveLiveMeeting", <<>>)]
            /\ UNCHANGED <<store, now>>
       ELSE \E endTime \in Times :
            LET key == FirstKey(Active(store))
                archivedMeeting == Archived(store[key], endTime)
            IN  /\ NewDate(endTime)
                /\ store' = setItem(store, key, archivedMeeting)
                /\ result' = [NoResult EXCEPT
                                !.op = "archiveLiveMeeting",
                                !.again = Again("archiveLiveMeeting", <<>>),
                                !.ret = Some(archivedMeeting),
                                !.wrote = {key}]
    /\ fresh' = None
    /\ UNCHANGED <<meetingId, data, isLoading, load, pending, intended,
                   retimed>>

\* (a deliberately wrong variant: the scan stops at the first match)
KeyToDelete_First(s, startTime) ==
    LET matching == {k \in DOMAIN s : s[k].startTime = startTime} IN
    IF matching = {} THEN None ELSE Some(FirstKey(matching))
\* lines 393-398: the callback returns undefined on a match too, so iterate
\* goes on to the end and the last matching key is the one kept
KeyToDelete(s, startTime) ==
    LET matching == {k \in DOMAIN s : s[k].startTime = startTime} IN
    IF matching = {} THEN None ELSE Some(LastKey(matching))

\* lines 388-413
deleteArchivedMeeting(startTime, ok) ==
    /\ Called
    /\ LET keyToDelete == KeyToDelete(store, startTime) IN
       IF ~ok
       THEN /\ result' = [NoResult EXCEPT !.op = "deleteArchivedMeeting",
                                          !.status = "threw"]
            /\ UNCHANGED store
       ELSE IF keyToDelete = None
       THEN /\ result' = [NoResult EXCEPT
                            !.op = "deleteArchivedMeeting",
                            !.again = Again("deleteArchivedMeeting",
                                            <<startTime>>)]
            /\ UNCHANGED store
       ELSE /\ store' = removeItem(store, keyToDelete[1])
            /\ result' = [NoResult EXCEPT
                            !.op = "deleteArchivedMeeting",
                            !.args = <<startTime>>,
                            !.again = Again("deleteArchivedMeeting",
                                            <<startTime>>),
                            !.wrote = {keyToDelete[1]}]
    /\ fresh' = None
    /\ UNCHANGED <<now, meetingId, data, isLoading, load, pending, intended,
                   retimed>>

\* a ?? b
Coalesce(a, b) == IF a = Null THEN b ELSE a
\* update.f, undefined (here Null) when the partial has no f
Field(update, f) == IF f \in DOMAIN update THEN update[f] ELSE Null

\* (a deliberately wrong variant: the partial spread over the record with nothing kept back)
Updated_PlainMerge(meeting, update) ==
    [f \in DOMAIN meeting |->
        IF f \in DOMAIN update THEN update[f] ELSE meeting[f]]
\* (a deliberately wrong variant: the notes of the partial are added to the
\* stored notes)
Updated_AppendsNotes(meeting, update) ==
    [f \in DOMAIN meeting |->
        CASE f = "title" -> Coalesce(Field(update, "title"), meeting.title)
          [] f = "startTime" ->
                IF "startTime" \in DOMAIN update THEN update.startTime
                ELSE meeting.startTime
          [] f = "id" -> meeting.id
          [] f = "isArchived" -> TRUE
          [] f = "notes" ->
                IF "notes" \in DOMAIN update
                THEN meeting.notes \o update.notes ELSE meeting.notes
          [] OTHER -> IF f \in DOMAIN update THEN update[f] ELSE meeting[f]]
\* (a deliberately wrong variant: the id of the partial is taken)
Updated_TakesId(meeting, update) ==
    [f \in DOMAIN meeting |->
        CASE f = "title" -> Coalesce(Field(update, "title"), meeting.title)
          [] f = "startTime" ->
                IF "startTime" \in DOMAIN update THEN update.startTime
                ELSE meeting.startTime
          [] f = "isArchived" -> TRUE
          [] OTHER -> IF f \in DOMAIN update THEN update[f] ELSE meeting[f]]
\* lines 425-433
Updated(meeting, update) ==
    [f \in DOMAIN meeting |->
        CASE f = "title" -> Coalesce(Field(update, "title"), meeting.title)
          [] f = "startTime" ->
                IF "startTime" \in DOMAIN update THEN update.startTime
                ELSE meeting.startTime
          [] f = "id" -> meeting.id
          [] f = "isArchived" -> TRUE
          [] OTHER -> IF f \in DOMAIN update THEN update[f] ELSE meeting[f]]

\* the partials updateArchivedMeeting is called with
Updates ==
    {[title |-> "t2"], [title |-> Null], [notes |-> <<"n2">>],
     [id |-> UnknownId, isArchived |-> FALSE]}
    \cup {[startTime |-> t] : t \in Times}

\* lines 416-453
updateArchivedMeeting(id, update, ok) ==
    /\ Called
    /\ IF ~ok \/ id \notin DOMAIN store
       THEN /\ result' = [NoResult EXCEPT !.op = "updateArchivedMeeting"]
            /\ UNCHANGED <<store, retimed>>
       ELSE LET updated == Updated(store[id], update) IN
            /\ store' = setItem(store, id, updated)
            /\ result' = [NoResult EXCEPT
                            !.op = "updateArchivedMeeting",
                            !.args = <<id, update>>,
                            !.again = Again("updateArchivedMeeting",
                                            <<id, update>>),
                            !.ret = Some(updated),
                            !.wrote = {id}]
            /\ retimed' = IF "startTime" \in DOMAIN update
                          THEN retimed \cup {id} ELSE retimed
    /\ fresh' = None
    /\ UNCHANGED <<now, meetingId, data, isLoading, load, pending, intended>>

\* iterate() hands the values over in key order
RECURSIVE KeySeq(_)
KeySeq(S) ==
    IF S = {} THEN <<>> ELSE <<FirstKey(S)>> \o KeySeq(S \ {FirstKey(S)})
Iterate(s) == [i \in 1..Cardinality(DOMAIN s) |-> s[KeySeq(DOMAIN s)[i]]]

\* lines 464-466: Array.prototype.sort is stable; newest startTime first
RECURSIVE InsertNewestFirst(_, _)
InsertNewestFirst(sorted, m) ==
    IF sorted = <<>> THEN <<m>>
    ELSE IF Head(sorted).startTime >= m.startTime
         THEN <<Head(sorted)>> \o InsertNewestFirst(Tail(sorted), m)
         ELSE <<m>> \o sorted
\* (a deliberately wrong variant: the list returned as iterate() filled it)
SortNewestFirst_AsIterated(meetings) == meetings
RECURSIVE SortNewestFirst(_)
SortNewestFirst(meetings) ==
    IF meetings = <<>> THEN <<>>
    ELSE InsertNewestFirst(
             SortNewestFirst(SubSeq(meetings, 1, Len(meetings) - 1)),
             meetings[Len(meetings)])

\* lines 455-479
getAllMeetings(ok) ==
    /\ Called
    /\ result' = [NoResult EXCEPT
                    !.op = "getAllMeetings",
                    !.again = ok /\ Again("getAllMeetings", <<>>),
                    !.ret = IF ok THEN SortNewestFirst(Iterate(store))
                            ELSE <<>>]
    /\ fresh' = None
    /\ UNCHANGED <<store, now, meetingId, data, isLoading, load, pending,
                   intended, retimed>>

\* lines 350-356: a component calls the hook under the provider c, or under
\* no provider at all (useContext then gives undefined)
Outside == "outside"
useMeetingContext(c) ==
    /\ Called
    /\ result' = [NoResult EXCEPT
                    !.op = "useMeetingContext", !.by = c,
                    !.status = IF c \in Providers THEN "returned" ELSE "threw"]
    /\ fresh' = None
    /\ UNCHANGED <<store, now, meetingId, data, isLoading, load, pending,
                   intended, retimed>>

\* -------------------------------------------------------- specifications
ProviderStep(p) ==
    \/ \E mid \in MeetingIds : LoadEffect(p, mid)
    \/ reloadData(p)
    \/ \E ok \in BOOLEAN : LoadScan(p, ok)
    \/ \E ok \in BOOLEAN : LoadCreate(p, ok)
    \/ \E title \in Titles : setTitle(p, title)
    \/ \E notes \in NotesValues : setNotes(p, notes)
    \/ \E analysis \in AnalysisValues : setAnalysis(p, analysis)
    \/ \E questions \in QuestionsValues : setQuestions(p, questions)
    \/ \E chunks \in ChunksValues : ContextUpdateStore(p, chunks)
    \/ \E ok \in BOOLEAN : UpdateStoreSettle(p, ok)

Next ==
    \/ \E p \in Providers : ProviderStep(p)
    \/ \E ok \in BOOLEAN : archiveLiveMeeting(ok)
    \/ \E startTime \in Times, ok \in BOOLEAN :
          deleteArchivedMeeting(startTime, ok)
    \/ \E id \in Ids \cup {UnknownId}, update \in Updates, ok \in BOOLEAN :
          updateArchivedMeeting(id, update, ok)
    \/ \E ok \in BOOLEAN : getAllMeetings(ok)
    \/ \E c \in Providers \cup {Outside} : useMeetingContext(c)

Spec == Init /\ [][Next]_vars

\* One provider, mounted once, then its setters; every store access succeeds.
NextEdit ==
    \/ \E mid \in {NoMeetingId, UnknownId} : LoadEffect("A", mid) /\ ~Mounted("A")
    \/ LoadScan("A", TRUE)
    \/ LoadCreate("A", TRUE)
    \/ \E title \in Titles : setTitle("A", title)
    \/ \E notes \in NotesValues : setNotes("A", notes)
    \/ \E analysis \in AnalysisValues : setAnalysis("A", analysis)
    \/ \E questions \in QuestionsValues : setQuestions("A", questions)
    \/ UpdateStoreSettle("A", TRUE)

SpecEdit == Init /\ [][NextEdit]_vars

\* What earlier sessions can have left under the key of the record created at
\* time t: the record still active, edited or not; the record archived by
\* archiveLiveMeeting (endTime set) or by updateArchivedMeeting (no endTime),
\* its startTime possibly replaced by updateArchivedMeeting.
Edits == {[title |-> Null, notes |-> <<>>], [title |-> "t1", notes |-> <<"n1">>]}
PersistedRecords(t) ==
    {[NewMeeting(t) EXCEPT !.title = e.title, !.notes = e.notes] : e \in Edits}
    \cup
    {[NewMeeting(t) EXCEPT !.title = "t1", !.notes = <<"n1">>,
                           !.isArchived = TRUE, !.endTime = end,
                           !.startTime = startTime] :
        end \in {None, Some(t)}, startTime \in {1, t}}
PersistedStores ==
    UNION {{s \in [K -> UNION {PersistedRecords(t) : t \in Times}] :
              \A k \in K : s[k] \in PersistedRecords(TimeOfKey(k))} :
           K \in SUBSET Ids}

InitRepo ==
    /\ store \in PersistedStores
    /\ now \in Times
    /\ \A k \in DOMAIN store :
          /\ TimeOfKey(k) <= now
          /\ store[k].endTime # None => store[k].endTime[1] <= now
    /\ Unmounted

MoreRepoCalls == calls < MaxRepoCalls

NextRepo ==
    \/ \E ok \in BOOLEAN : MoreRepoCalls /\ archiveLiveMeeting(ok)
    \/ \E startTime \in Times, ok \in BOOLEAN :
          MoreRepoCalls /\ deleteArchivedMeeting(startTime, ok)
    \/ \E id \in Ids \cup {UnknownId}, update \in Updates, ok \in BOOLEAN :
          MoreRepoCalls /\ updateArchivedMeeting(id, update, ok)
    \/ \E ok \in BOOLEAN : MoreRepoCalls /\ getAllMeetings(ok)

SpecRepo == InitRepo /\ [][NextRepo]_vars

\* Two providers (two tabs on the same store) that have both loaded the one
\* non-archived record of the store, fresh or edited in an earlier session;
\* then their setters and updateStore calls, in any order.
LoadedRecords == {r \in UNION {PersistedRecords(t) : t \in Times} : ~r.isArchived}
InitTabs ==
    /\ \E r \in LoadedRecords :
          /\ store = [k \in {r.id} |-> r]
          /\ data = [p \in Providers |-> Some(r)]
          /\ intended = [p \in Providers |-> IntentOf(r)]
    /\ now \in Times
    /\ \A k \in DOMAIN store : TimeOfKey(k) <= now
    /\ meetingId = [p \in Providers |-> NoMeetingId]
    /\ isLoading = [p \in Providers |-> FALSE]
    /\ load = [p \in Providers |-> Idle]
    /\ pending = [p \in Providers |-> <<>>]
    /\ result = NoResult
    /\ fresh = None
    /\ retimed = {}
    /\ calls = 0

NextTabs ==
    \/ \E p \in Providers, title \in Titles : setTitle(p, title)
    \/ \E p \in Providers, notes \in NotesValues : setNotes(p, notes)
    \/ \E p \in Providers, analysis \in AnalysisValues : setAnalysis(p, analysis)
    \/ \E p \in Providers, questions \in QuestionsValues :
          setQuestions(p, questions)
    \/ \E p \in Providers, chunks \in ChunksValues : ContextUpdateStore(p, chunks)
    \/ \E p \in Providers, ok \in BOOLEAN : UpdateStoreSettle(p, ok)

SpecTabs == InitTabs /\ [][NextTabs]_vars

\* Two providers and the calls that start loadData (the effect on mount and on
\* a change of meetingId, reloadData), with archiveLiveMeeting so that a later
\* load can again find no active record.  A promise of the store settles
\* (it resolves or it rejects) and the code after the await then runs: the
\* scan and the setItem of a load in flight are taken eventually.
NextLoad ==
    \/ \E p \in Providers, mid \in {NoMeetingId, UnknownId} :
          /\ ~Mounted(p) \/ mid # meetingId[p]
          /\ LoadEffect(p, mid)
    \/ \E p \in Providers : reloadData(p)
    \/ \E p \in Providers, ok \in BOOLEAN : LoadScan(p, ok)
    \/ \E p \in Providers, ok \in BOOLEAN : LoadCreate(p, ok)
    \/ \E ok \in BOOLEAN : archiveLiveMeeting(ok)

AwaitsSettle ==
    \A p \in Providers :
        /\ WF_vars(\E ok \in BOOLEAN : LoadScan(p, ok))
        /\ WF_vars(\E ok \in BOOLEAN : LoadCreate(p, ok))

SpecLoad == Init /\ [][NextLoad]_vars /\ AwaitsSettle


\* ---------------------------------------------------- derived projections
\* a || b: b when a is undefined, null or the empty string
Falsy(a) == a = Null \/ a = ""
Or(a, b) == IF Falsy(a) THEN b ELSE a
\* record[key], undefined (here Null) without the key
Lookup(record, key) == IF key \in DOMAIN record THEN record[key] ELSE Null
\* data.editedMergedChunks[chunk.id]?.text
EditedText(d, chunk) ==
    IF chunk.id \in DOMAIN d.editedMergedChunks
    THEN d.editedMergedChunks[chunk.id].text ELSE Null

\* (a deliberately wrong variant: speakerMappings is read under the raw
\* speaker label, the placeholder standing in only for the result)
Segment_MapsRawLabel(d, chunk) ==
    [timestamp |-> chunk.timestamp,
     transcription |-> Or(EditedText(d, chunk), chunk.text),
     deviceName |-> Or(chunk.deviceName, ""),
     speaker |-> Or(Or(Lookup(d.speakerMappings, chunk.speaker),
                       chunk.speaker), "speaker_0")]
\* lines 302-307: the entry a raw chunk is mapped to
Segment(d, chunk) ==
    [timestamp |-> chunk.timestamp,
     transcription |-> Or(EditedText(d, chunk), chunk.text),
     deviceName |-> Or(chunk.deviceName, ""),
     speaker |-> Or(Or(Lookup(d.speakerMappings, Or(chunk.speaker, "speaker_0")),
                       chunk.speaker), "speaker_0")]

\* line 302: (data?.chunks || []).map(...), data being null or a record
segments(d) ==
    IF d = None THEN <<>>
    ELSE [i \in 1..Len(d[1].chunks) |-> Segment(d[1], d[1].chunks[i])]

\* lines 298-341: the context value is computed (a render of the provider)
value(p) ==
    /\ result' = [NoResult EXCEPT !.op = "segments", !.by = p,
                                  !.ret = Some(segments(data[p]))]
    /\ UNCHANGED <<store, now, meetingId, data, isLoading, load, pending,
                   fresh, intended, retimed, calls>>

\* Raw chunks: the speaker label and the device name are optional; the edited
\* texts are keyed by chunk id; a speaker may have been given a display name.
\* An edited text and a display name are strings, the empty one included.
ChunkIds == {1, 2}
SpeakerLabels == {"speaker_0", "speaker_1"}
RawChunks ==
    [id : ChunkIds, timestamp : {1}, text : {"r1"},
     deviceName : {Null, "mic"}, speaker : {Null, "speaker_1"}]
ChunkLists == UNION {[1..n -> RawChunks] : n \in 0..MaxChunks}
EditedMergedChunks ==
    UNION {[K -> [text : {"", "e1"}]] : K \in SUBSET ChunkIds}
SpeakerMappings ==
    UNION {[K -> {"", "Ann"}] : K \in SUBSET SpeakerLabels}
ViewRecords ==
    {[editedMergedChunks |-> e, speakerMappings |-> m]
        @@ [NewMeeting(1) EXCEPT !.chunks = cs] :
     cs \in ChunkLists, e \in EditedMergedChunks, m \in SpeakerMappings}

\* Provider A holds a record with chunks, edits and speaker names; provider B
\* has not loaded yet (data is null).
InitView ==
    /\ \E r \in ViewRecords :
          /\ store = [k \in {r.id} |-> r]
          /\ data = [p \in Providers |-> IF p = "A" THEN Some(r) ELSE None]
          /\ intended = [p \in Providers |->
                           IF p = "A" THEN IntentOf(r) ELSE NoIntent]
    /\ now = 1
    /\ meetingId = [p \in Providers |-> NoMeetingId]
    /\ isLoading = [p \in Providers |-> p # "A"]
    /\ load = [p \in Providers |-> Idle]
    /\ pending = [p \in Providers |-> <<>>]
    /\ result = NoResult
    /\ fresh = None
    /\ retimed = {}
    /\ calls = 0

NextView == \E p \in Providers : value(p)

SpecView == InitView /\ [][NextView]_vars

TypeOK ==
    /\ DOMAIN store \subseteq Ids
    /\ now \in Times
    /\ calls \in 0..MaxCalls
    /\ \A p \in Providers : Len(pending[p]) <= MaxPending

\* ================================================================ claims

\* ---------------------------------------------------------------------- C1
\* C1: in every reachable state at most one stored record has
\* isArchived = false.
C1_AtMostOneActive == Cardinality(Active(store)) <= 1

\* ---------------------------------------------------------------------- C2
\* C2: once every setter call of a provider has taken effect, the record
\* persisted under the id of its in-memory copy holds, for each of title,
\* notes, analysis and questions, the value the latest call for that field
\* gave (the loaded value when no call set the field).
C2_LatestValuesPersisted ==
    (/\ data["A"] # None
     /\ load["A"].phase = "idle"
     /\ pending["A"] = <<>>)
    => /\ data["A"][1].id \in DOMAIN store
       /\ \A f \in SetterFields :
             store[data["A"][1].id][f] = intended["A"][f]

\* ---------------------------------------------------------------------- C3
\* C3: a record persisted with isArchived = true is never overwritten by a
\* record that is not archived or that has another id.
C3_ArchivedStaysArchived ==
    [][\A k \in DOMAIN store :
          (store[k].isArchived /\ k \in DOMAIN store')
          => (store'[k].isArchived /\ store'[k].id = store[k].id)]_vars

\* ---------------------------------------------------------------------- C4
\* C4: the write with which loadData creates a record goes to an id that
\* no stored record has, and stores an empty, non-archived record.
C4_CreatesUnderUnusedId ==
    [][\A p \in Providers :
          LoadCreate(p, TRUE)
          => /\ load[p].newData[1].id \notin DOMAIN store
             /\ Cardinality(DOMAIN store') = Cardinality(DOMAIN store) + 1
             /\ store'[load[p].newData[1].id].chunks = <<>>
             /\ store'[load[p].newData[1].id].notes = <<>>
             /\ store'[load[p].newData[1].id].questions = <<>>
             /\ ~store'[load[p].newData[1].id].isArchived]_vars

\* ---------------------------------------------------------------------- C5
\* C5: a loadData that follows at once, with the same meetingId, a loadData
\* that created a record finds that record, makes it the in-memory copy and
\* starts no write.
C5_SecondLoadFindsCreated ==
    [][\A p \in Providers :
          (fresh # None /\ fresh[1].by = p /\ LoadScan(p, TRUE))
          => /\ load'[p].phase = "idle"
             /\ data'[p] = Some(store[fresh[1].id])]_vars

\* ---------------------------------------------------------------------- C6
\* C6: archiveLiveMeeting on a store with a non-archived record sets
\* isArchived and a non-null endTime on the first such record in key order,
\* under the same key, returns that record, and changes no other field and
\* no other record.
C6_ArchiveFlipsFirstActive ==
    [][(archiveLiveMeeting(TRUE)
        /\ {k \in DOMAIN store : ~store[k].isArchived} # {})
       => LET active == {k \in DOMAIN store : ~store[k].isArchived}
              key == CHOOSE k \in active :
                        \A j \in active : TimeOfKey(k) <= TimeOfKey(j)
          IN  /\ DOMAIN store' = DOMAIN store
              /\ \A j \in DOMAIN store \ {key} : store'[j] = store[j]
              /\ store'[key].isArchived
              /\ store'[key].endTime # None
              /\ \A f \in Fields \ {"isArchived", "endTime"} :
                    store'[key][f] = store[key][f]
              /\ result'.ret = Some(store'[key])
              /\ result'.wrote = {key}]_vars

\* an archive that returned an edited record while another record stays active
C6_Witness ==
    /\ result.op = "archiveLiveMeeting"
    /\ result.ret # None
    /\ result.ret[1].title # Null
    /\ result.ret[1].notes # <<>>
    /\ \E k \in DOMAIN store : ~store[k].isArchived

\* ---------------------------------------------------------------------- C7
\* C7: archiveLiveMeeting with no non-archived record stored, and
\* updateArchivedMeeting with an id that is no key of the store, return
\* null, write nothing and leave the store as it was.
C7_AbsenceReturnsNull ==
    [][(\/ /\ archiveLiveMeeting(TRUE)
           /\ \A k \in DOMAIN store : store[k].isArchived
        \/ \E id \in Ids \cup {UnknownId}, update \in Updates :
              /\ id \notin DOMAIN store
              /\ updateArchivedMeeting(id, update, TRUE))
       => /\ result'.status = "returned"
          /\ result'.ret = None
          /\ result'.wrote = {}
          /\ store' = store]_vars

\* archiveLiveMeeting returned null on a store that holds (archived) records
C7_Witness ==
    /\ result.op = "archiveLiveMeeting"
    /\ result.status = "returned"
    /\ result.ret = None
    /\ DOMAIN store # {}

\* ---------------------------------------------------------------------- C8
\* C8 as claimed: updateArchivedMeeting(id, partial) on a stored record
\* persists and returns a record whose fields are the partial's where the
\* partial has them and the stored ones elsewhere, except id (the stored
\* one) and isArchived (true); no other record changes.
C8_UpdateTakesEveryPartialField ==
    [][\A id \in Ids, update \in Updates :
          (/\ id \in DOMAIN store
           /\ result'.wrote = {id}
           /\ updateArchivedMeeting(id, update, TRUE))
          => /\ DOMAIN store' = DOMAIN store
             /\ \A j \in DOMAIN store \ {id} : store'[j] = store[j]
             /\ \A f \in Fields \ {"id", "isArchived"} :
                   store'[id][f] = IF f \in DOMAIN update THEN update[f]
                                   ELSE store[id][f]
             /\ store'[id].id = store[id].id
             /\ store'[id].isArchived
             /\ result'.ret = Some(store'[id])]_vars

\* C8 as amended: as claimed, except that a partial whose title is null
\* leaves the stored title in place.
C8_UpdateTakesPartialButNullTitle ==
    [][\A id \in Ids, update \in Updates :
          (/\ id \in DOMAIN store
           /\ result'.wrote = {id}
           /\ updateArchivedMeeting(id, update, TRUE))
          => /\ DOMAIN store' = DOMAIN store
             /\ \A j \in DOMAIN store \ {id} : store'[j] = store[j]
             /\ \A f \in Fields \ {"id", "isArchived"} :
                   store'[id][f] =
                      IF f \in DOMAIN update /\ ~(f = "title" /\ update[f] = Null)
                      THEN update[f] ELSE store[id][f]
             /\ store'[id].id = store[id].id
             /\ store'[id].isArchived
             /\ result'.ret = Some(store'[id])]_vars

\* an update that changed the title of a record and kept its notes
C8_Witness ==
    /\ result.op = "updateArchivedMeeting"
    /\ result.ret # None
    /\ result.ret[1].title = "t2"
    /\ result.ret[1].notes = <<"n1">>
    /\ result.ret[1].id \in DOMAIN store
    /\ store[result.ret[1].id] = result.ret[1]

\* ---------------------------------------------------------------------- C9
\* C9 as claimed: every stored record has the startTime it was created with
\* (the one its id was made from).
C9_StartTimeNeverChanges ==
    \A k \in DOMAIN store : MkId(store[k].startTime) = k

\* C9 as amended: every stored record has the startTime it was created
\* with, unless updateArchivedMeeting was given a startTime for its id.
C9_StartTimeKeptUnlessGiven ==
    \A k \in DOMAIN store : k \notin retimed => MkId(store[k].startTime) = k

\* a record that a setter and archiveLiveMeeting have written, at a later
\* time than it was created
C9_Witness ==
    \E k \in DOMAIN store :
       /\ k \notin retimed
       /\ store[k].isArchived
       /\ store[k].title # Null
       /\ store[k].endTime # None
       /\ store[k].endTime # Some(store[k].startTime)

\* --------------------------------------------------------------------- C10
\* C10 as claimed: after deleteArchivedMeeting(ts) no stored record has
\* startTime = ts, every record with another startTime is stored unchanged,
\* and with no record of startTime = ts the store is unchanged.
C10_DeleteRemovesEveryMatch ==
    [][\A ts \in Times :
          deleteArchivedMeeting(ts, TRUE)
          => /\ \A k \in DOMAIN store' : store'[k].startTime # ts
             /\ \A k \in DOMAIN store :
                   store[k].startTime # ts
                   => (k \in DOMAIN store' /\ store'[k] = store[k])
             /\ (\A k \in DOMAIN store : store[k].startTime # ts)
                => store' = store]_vars

\* C10 as amended: deleteArchivedMeeting(ts) removes one record of
\* startTime = ts, the last in key order, when there is any; every other
\* record is stored unchanged; no stored record has startTime = ts afterwards
\* when at most one had it; with none, the store is unchanged.
C10_DeleteRemovesLastMatch ==
    [][\A ts \in Times :
          deleteArchivedMeeting(ts, TRUE)
          => LET matching == {k \in DOMAIN store : store[k].startTime = ts} IN
             /\ matching = {} => store' = store
             /\ matching # {}
                => \E k \in matching :
                      /\ \A j \in matching : TimeOfKey(j) <= TimeOfKey(k)
                      /\ DOMAIN store' = DOMAIN store \ {k}
             /\ \A k \in DOMAIN store' : store'[k] = store[k]
             /\ Cardinality(matching) <= 1
                => \A k \in DOMAIN store' : store'[k].startTime # ts]_vars

\* a delete that removed a record and left another one stored
C10_Witness ==
    /\ result.op = "deleteArchivedMeeting"
    /\ result.wrote # {}
    /\ result.wrote \cap DOMAIN store = {}
    /\ DOMAIN store # {}

\* --------------------------------------------------------------------- C11
\* C11: getAllMeetings returns every stored record exactly once, a record
\* with a later startTime before one with an earlier startTime, and leaves
\* the store as it was.
C11_ListsAllNewestFirst ==
    [][(result'.op = "getAllMeetings" /\ getAllMeetings(TRUE))
       => LET meetings == result'.ret IN
          /\ Len(meetings) = Cardinality(DOMAIN store)
          /\ \A k \in DOMAIN store :
                \E i \in 1..Len(meetings) : meetings[i] = store[k]
          /\ \A i, j \in 1..Len(meetings) :
                i < j => meetings[i].startTime >= meetings[j].startTime
          /\ store' = store]_vars

\* the list of two records, the one iterate() reaches last returned first
C11_Witness ==
    /\ result.op = "getAllMeetings"
    /\ Len(result.ret) = 2
    /\ result.ret[1].startTime > result.ret[2].startTime
    /\ result.ret[1] = store[LastKey(DOMAIN store)]

\* --------------------------------------------------------------------- C12
\* C12: when the setItem of updateStore fails, updateStore returns false
\* (nothing is thrown), the in-memory copy of the provider is what it was
\* and the store is what it was.
C12_FailedWriteChangesNothing ==
    [][\A p \in Providers :
          UpdateStoreSettle(p, FALSE)
          => /\ result'.op = "updateStore"
             /\ result'.status = "false"
             /\ result'.wrote = {}
             /\ data' = data
             /\ store' = store]_vars

\* a setter's write has failed: the copy in memory and the stored record are
\* the same still, without the value the setter was given
C12_Witness ==
    /\ result.op = "updateStore"
    /\ result.status = "false"
    /\ data[result.by] # None
    /\ data[result.by][1].id \in DOMAIN store
    /\ store[data[result.by][1].id] = data[result.by][1]
    /\ IntentOf(data[result.by][1]) # intended[result.by]

\* --------------------------------------------------------------------- C13
\* C13 as claimed: a store failure inside loadData, updateStore,
\* archiveLiveMeeting, deleteArchivedMeeting, updateArchivedMeeting or
\* getAllMeetings ends the call with null, false or the empty list and never
\* with a thrown error; only useMeetingContext outside a provider throws.
C13_FailuresNeverThrown ==
    [][/\ result'.op = "loadData"
          => \A p \in Providers :
                (LoadScan(p, FALSE) \/ LoadCreate(p, FALSE))
                => (result'.status = "returned" /\ result'.ret = None)
       /\ result'.op = "updateStore"
          => \A p \in Providers :
                UpdateStoreSettle(p, FALSE) => result'.status = "false"
       /\ (result'.op = "archiveLiveMeeting" /\ archiveLiveMeeting(FALSE))
             => (result'.status = "returned" /\ result'.ret = None)
       /\ result'.op = "deleteArchivedMeeting"
          => \A ts \in Times :
                deleteArchivedMeeting(ts, FALSE) => result'.status = "returned"
       /\ (/\ result'.op = "updateArchivedMeeting"
           /\ result'.wrote = {}
           /\ \E id \in Ids \cup {UnknownId}, update \in Updates :
                 updateArchivedMeeting(id, update, FALSE))
          => (result'.status = "returned" /\ result'.ret = None)
       /\ (result'.op = "getAllMeetings" /\ getAllMeetings(FALSE))
             => (result'.status = "returned" /\ result'.ret = <<>>)
       /\ result'.status = "threw"
             => (result'.op = "useMeetingContext" /\ result'.by = Outside)]_vars

\* C13 as amended: a store failure inside loadData, updateStore,
\* updateArchivedMeeting or getAllMeetings ends the call with null, false or
\* the empty list; inside archiveLiveMeeting or deleteArchivedMeeting it ends
\* the call with the error thrown again; nothing else throws but
\* useMeetingContext outside a provider.
C13_ArchiveAndDeleteRethrow ==
    [][/\ result'.op = "loadData"
          => \A p \in Providers :
                (LoadScan(p, FALSE) \/ LoadCreate(p, FALSE))
                => (result'.status = "returned" /\ result'.ret = None)
       /\ result'.op = "updateStore"
          => \A p \in Providers :
                UpdateStoreSettle(p, FALSE) => result'.status = "false"
       /\ (result'.op = "archiveLiveMeeting" /\ archiveLiveMeeting(FALSE))
             => result'.status = "threw"
       /\ result'.op = "deleteArchivedMeeting"
          => \A ts \in Times :
                deleteArchivedMeeting(ts, FALSE) => result'.status = "threw"
       /\ (/\ result'.op = "updateArchivedMeeting"
           /\ result'.wrote = {}
           /\ \E id \in Ids \cup {UnknownId}, update \in Updates :
                 updateArchivedMeeting(id, update, FALSE))
          => (result'.status = "returned" /\ result'.ret = None)
       /\ (result'.op = "getAllMeetings" /\ getAllMeetings(FALSE))
             => (result'.status = "returned" /\ result'.ret = <<>>)
       /\ result'.status = "threw"
             => \/ result'.op = "useMeetingContext" /\ result'.by = Outside
                \/ result'.op \in {"archiveLiveMeeting",
                                   "deleteArchivedMeeting"}]_vars

\* archiveLiveMeeting has thrown with a non-archived record in the store
C13_Witness ==
    /\ result.op = "archiveLiveMeeting"
    /\ result.status = "threw"
    /\ \E k \in DOMAIN store : ~store[k].isArchived

\* --------------------------------------------------------------------- C14
\* C14: the scan of loadData starts the creation of a record only when no
\* non-archived record is stored: given a meetingId that a stored record
\* has, that record becomes the in-memory copy and nothing is written;
\* given a meetingId that no stored record has while a non-archived record
\* is stored, the first non-archived record becomes the in-memory copy.
C14_CreatesOnlyWithoutActive ==
    [][\A p \in Providers :
          LoadScan(p, TRUE)
          => LET mid == load[p].mid
                 byId == {k \in DOMAIN store : store[k].id = mid}
             IN  /\ (mid # NoMeetingId /\ byId # {})
                    => /\ load'[p].phase = "idle"
                       /\ data'[p] # None
                       /\ data'[p][1].id = mid
                       /\ store' = store
                 /\ Active(store) # {} => load'[p].phase = "idle"
                 /\ (mid # NoMeetingId /\ byId = {} /\ Active(store) # {})
                    => data'[p] = Some(store[FirstKey(Active(store))])]_vars

\* --------------------------------------------------------------------- C15
\* C15: a setter called while the provider's in-memory copy is null starts
\* no store write, writes nothing and leaves the copy null.
C15_SettersNeedData ==
    [][\A p \in Providers :
          (/\ data[p] = None
           /\ calls' # calls
           /\ load' = load
           /\ \/ \E title \in Titles : setTitle(p, title)
              \/ \E notes \in NotesValues : setNotes(p, notes)
              \/ \E analysis \in AnalysisValues : setAnalysis(p, analysis)
              \/ \E questions \in QuestionsValues : setQuestions(p, questions))
          => /\ store' = store
             /\ pending' = pending
             /\ data'[p] = None]_vars

\* setNotes has returned on a provider whose load failed: no copy in memory,
\* no write under way
C15_Witness ==
    /\ result.op = "setNotes"
    /\ data[result.by] = None
    /\ ~isLoading[result.by]
    /\ pending[result.by] = <<>>

\* --------------------------------------------------------------------- C16
\* C16: whenever the in-memory copy of a provider is replaced, the new copy
\* is not null and is the record the store holds under the copy's id, as
\* just read (loadData found it) or as just written (loadData created it,
\* updateStore wrote it): no copy is set that the store did not hold.
C16_MemoryFollowsStore ==
    [][\A p \in Providers :
          data'[p] # data[p]
          => /\ data'[p] # None
             /\ \/ /\ data'[p][1].id \in DOMAIN store
                   /\ store[data'[p][1].id] = data'[p][1]
                \/ /\ data'[p][1].id \in DOMAIN store'
                   /\ store'[data'[p][1].id] = data'[p][1]]_vars

\* updateStore has returned true: the copy in memory carries the new title
\* and is the stored record
C16_Witness ==
    /\ result.op = "updateStore"
    /\ result.status = "true"
    /\ data[result.by] # None
    /\ data[result.by][1].title = "t1"
    /\ result.wrote = {data[result.by][1].id}
    /\ store[data[result.by][1].id] = data[result.by][1]

\* --------------------------------------------------------------------- C17
\* C17: the last writer wins.  setNotes builds the record to write from the
\* copy its own provider holds, whatever the store holds by then, and the
\* write of updateStore replaces the stored record by that record whole and
\* returns true: what another provider wrote in between is gone and no
\* conflict is reported.
C17_LastWriterWins ==
    [][\A p \in Providers :
          /\ \A notes \in NotesValues :
                (data[p] # None /\ setNotes(p, notes))
                => pending'[p][Len(pending'[p])].newData
                      = [data[p][1] EXCEPT !.notes = notes]
          /\ UpdateStoreSettle(p, TRUE)
             => LET newData == Head(pending[p]).newData IN
                /\ store'[newData.id] = newData
                /\ \A k \in DOMAIN store \ {newData.id} :
                      k \in DOMAIN store' /\ store'[k] = store[k]
                /\ result'.status = "true"]_vars

\* A's setTitle and then B's setNotes have both returned true; the stored
\* record has B's notes and not the title A set and still shows
C17_Witness ==
    /\ result.op = "updateStore"
    /\ result.by = "B"
    /\ result.status = "true"
    /\ pending["A"] = <<>>
    /\ pending["B"] = <<>>
    /\ intended["A"].title = "t1"
    /\ data["A"][1].title = "t1"
    /\ store[data["B"][1].id].notes = <<"n1">>
    /\ store[data["B"][1].id].title = Null
    /\ data["A"][1].id = data["B"][1].id

\* --------------------------------------------------------------------- C18
\* C18 as claimed: archiveLiveMeeting, deleteArchivedMeeting(ts),
\* updateArchivedMeeting(id, partial) or getAllMeetings called again, with
\* the same arguments, right after it returned leaves the stored records as
\* the first call left them, endTime apart.
C18_SecondCallChangesNothing ==
    [][(/\ result'.again
        /\ \/ archiveLiveMeeting(TRUE)
           \/ \E ts \in Times : deleteArchivedMeeting(ts, TRUE)
           \/ \E id \in Ids, update \in Updates :
                 updateArchivedMeeting(id, update, TRUE)
           \/ getAllMeetings(TRUE))
       => /\ DOMAIN store' = DOMAIN store
          /\ \A k \in DOMAIN store : \A f \in Fields \ {"endTime"} :
                store'[k][f] = store[k][f]]_vars

\* C18 as amended: updateArchivedMeeting and getAllMeetings called again
\* leave the store as it is; archiveLiveMeeting called again leaves it as it
\* is when no non-archived record is left and archives one more record when
\* one is; deleteArchivedMeeting(ts) called again leaves it as it is when no
\* record of startTime ts is left and removes one more record when one is.
C18_SecondCallTakesTheNext ==
    [][/\ (result'.again /\ archiveLiveMeeting(TRUE))
          => LET left == {k \in DOMAIN store : ~store[k].isArchived} IN
             /\ left = {} => store' = store
             /\ left # {}
                => \E k \in left :
                      /\ store'[k].isArchived
                      /\ DOMAIN store' = DOMAIN store
                      /\ \A j \in DOMAIN store \ {k} : store'[j] = store[j]
       /\ \A ts \in Times :
             (result'.again /\ deleteArchivedMeeting(ts, TRUE))
             => LET left == {k \in DOMAIN store : store[k].startTime = ts} IN
                /\ left = {} => store' = store
                /\ left # {}
                   => \E k \in left :
                         /\ DOMAIN store' = DOMAIN store \ {k}
                         /\ \A j \in DOMAIN store' : store'[j] = store[j]
       /\ \A id \in Ids, update \in Updates :
             (result'.again /\ updateArchivedMeeting(id, update, TRUE))
             => store' = store
       /\ (result'.again /\ getAllMeetings(TRUE)) => store' = store]_vars

\* updateArchivedMeeting called twice with the same notes: the record has
\* them once
C18_Witness ==
    /\ result.again
    /\ result.op = "updateArchivedMeeting"
    /\ result.ret # None
    /\ result.ret[1].notes = <<"n2">>
    /\ store[result.ret[1].id] = result.ret[1]

\* --------------------------------------------------------------------- C19
\* C19: deleteArchivedMeeting removes archived records only: a record that
\* is not archived is stored, unchanged, after the call, whatever startTime
\* the call was given.
C19_DeleteSparesActive ==
    [][\A ts \in Times :
          deleteArchivedMeeting(ts, TRUE)
          => \A k \in DOMAIN store :
                ~store[k].isArchived
                => (k \in DOMAIN store' /\ store'[k] = store[k])]_vars

\* --------------------------------------------------------------------- C20
\* C20: every record is stored under the key that is its id.
C20_KeyIsId == \A k \in DOMAIN store : store[k].id = k

\* updateArchivedMeeting has written a record it was given another id for
C20_Witness ==
    /\ result.op = "updateArchivedMeeting"
    /\ result.wrote # {}
    /\ "id" \in DOMAIN result.args[2]
    /\ result.args[2].id # result.args[1]
    /\ store[result.args[1]] = result.ret[1]

\* --------------------------------------------------------------------- C21
\* C21: every loadData in flight (started by the effect on mount or on a
\* change of meetingId, or by reloadData) comes to its end with isLoading
\* false, whether it found a record, created one or met a store error; the
\* step that ends a load is the one that sets isLoading false; and reloadData
\* sets isLoading true in the step that starts the load.
C21_LoadEndsLoading ==
    /\ \A p \in Providers :
          (load[p].phase # "idle") ~> (load[p].phase = "idle" /\ ~isLoading[p])
    /\ [][\A p \in Providers :
            /\ (load[p].phase # "idle" /\ load'[p].phase = "idle")
                  => ~isLoading'[p]
            /\ reloadData(p) => (isLoading'[p] /\ load'[p].phase = "scan")]_vars

\* a provider that holds a record from an earlier load has loaded again, the
\* store failed, and isLoading is false
C21_Witness ==
    \E p \in Providers :
        /\ data[p] # None
        /\ result.op = "loadData" /\ result.by = p
        /\ result.ret = None /\ result.wrote = {}
        /\ load[p].phase = "idle"
        /\ ~isLoading[p]


\* --------------------------------------------------------------------- C22
\* C22: every stored record with isArchived = true has an endTime, in every
\* state reached from the empty store by loadData, the setters,
\* archiveLiveMeeting and updateArchivedMeeting.
C22_ArchivedHasEndTime ==
    \A k \in DOMAIN store : store[k].isArchived => store[k].endTime # None


\* --------------------------------------------------------------------- C23
\* C23 (as stated): the derived segments list has one entry per raw chunk of
\* the in-memory record, in chunk order; the entry's text is the edited text
\* stored under the chunk's id when there is one, else the raw text; its
\* speaker is the speakerMappings value of the chunk's speaker label when
\* there is one, else the raw label, else 'speaker_0'; the store is not
\* written.
C23_SegmentsFollowChunks ==
    [][\A p \in Providers :
         (result'.op = "segments" /\ result'.by = p /\ value(p)) =>
            LET d == data[p]
                segs == result'.ret[1]
                chunks == IF d = None THEN <<>> ELSE d[1].chunks
            IN  /\ store' = store
                /\ Len(segs) = Len(chunks)
                /\ \A i \in 1..Len(chunks) :
                      LET chunk == chunks[i]
                          edited == d[1].editedMergedChunks
                          names == d[1].speakerMappings
                      IN  /\ segs[i].timestamp = chunk.timestamp
                          /\ segs[i].transcription =
                                IF chunk.id \in DOMAIN edited
                                THEN edited[chunk.id].text ELSE chunk.text
                          /\ segs[i].speaker =
                                IF chunk.speaker # Null
                                   /\ chunk.speaker \in DOMAIN names
                                THEN names[chunk.speaker]
                                ELSE IF chunk.speaker # Null
                                THEN chunk.speaker ELSE "speaker_0"]_vars

\* C23 (amended): as above, but an empty edited text counts as none (the raw
\* text is shown), a chunk without a speaker label is looked up in
\* speakerMappings under 'speaker_0', and an empty display name counts as
\* none (the label is shown).
C23_SegmentsFollowChunksNonEmpty ==
    [][\A p \in Providers :
         (result'.op = "segments" /\ result'.by = p /\ value(p)) =>
            LET d == data[p]
                segs == result'.ret[1]
                chunks == IF d = None THEN <<>> ELSE d[1].chunks
            IN  /\ store' = store
                /\ Len(segs) = Len(chunks)
                /\ \A i \in 1..Len(chunks) :
                      LET chunk == chunks[i]
                          edited == d[1].editedMergedChunks
                          names == d[1].speakerMappings
                          label == IF chunk.speaker \in {Null, ""}
                                   THEN "speaker_0" ELSE chunk.speaker
                      IN  /\ segs[i].timestamp = chunk.timestamp
                          /\ segs[i].transcription =
                                IF chunk.id \in DOMAIN edited
                                   /\ edited[chunk.id].text # ""
                                THEN edited[chunk.id].text ELSE chunk.text
                          /\ segs[i].speaker =
                                IF label \in DOMAIN names /\ names[label] # ""
                                THEN names[label] ELSE label]_vars

\* the list was computed for a record of two chunks: the first edited and
\* with a named speaker, the second raw, without a speaker label, while
\* 'speaker_0' has a display name
C23_Witness ==
    /\ result.op = "segments" /\ result.by = "A"
    /\ LET d == data["A"][1] IN
       /\ Len(d.chunks) = 2
       /\ d.chunks[1].id \in DOMAIN d.editedMergedChunks
       /\ d.editedMergedChunks[d.chunks[1].id].text = "e1"
       /\ d.chunks[1].speaker = "speaker_1"
       /\ "speaker_1" \in DOMAIN d.speakerMappings
       /\ d.speakerMappings["speaker_1"] = "Ann"
       /\ d.chunks[2].id \notin DOMAIN d.editedMergedChunks
       /\ d.chunks[2].speaker = Null
       /\ "speaker_0" \in DOMAIN d.speakerMappings
       /\ d.speakerMappings["speaker_0"] = "Ann"
       /\ result.ret[1][1].transcription = "e1"
       /\ result.ret[1][1].speaker = "Ann"
       /\ result.ret[1][2].transcription = "r1"
       /\ result.ret[1][2].speaker = "Ann"

=============================================================================
